---------------------------- MODULE Spec2Model ----------------------------
(***************************************************************************)
(* Candidate scoring and ranking (python/sourcing/candidate_scorer.py,     *)
(* python/utils/helpers.py, python/utils/groq_client.py).                  *)
(*                                                                         *)
(* Text is a sequence of one-character strings, so that lower(), strip(),  *)
(* split(',') and the substring test `in` are computed, not assumed.       *)
(* Python floats are modelled by exact rationals [n, d] in lowest terms;   *)
(* the claims about sums and ranges are read with the tolerance the spec   *)
(* states (1e-6), which exact arithmetic decides.  Dictionaries are        *)
(* functions whose DOMAIN is the set of keys present.                      *)
(***************************************************************************)
EXTENDS Integers, Sequences, FiniteSets, TLC

(***************************************************************************)
(* Bounds of the model.                                                    *)
(***************************************************************************)
MaxCandidates == 3
MaxSkills == 2
MaxYears == 21

(***************************************************************************)
(* Text: str.lower, str.strip, str.split(',') and `sub in s`.               *)
(***************************************************************************)
UpperCase == <<"A","B","C","D","E","F","G","H","I","J","K","L","M",
               "N","O","P","Q","R","S","T","U","V","W","X","Y","Z">>
LowerCase == <<"a","b","c","d","e","f","g","h","i","j","k","l","m",
               "n","o","p","q","r","s","t","u","v","w","x","y","z">>

ToLower ==
    [c \in {UpperCase[i] : i \in DOMAIN UpperCase} |->
        LowerCase[CHOOSE i \in DOMAIN UpperCase : UpperCase[i] = c]]

LowerChar(c) == IF c \in DOMAIN ToLower THEN ToLower[c] ELSE c

\* A str is a sequence of characters; the string methods are functions on
\* Text applied to the receiver.
Text == Seq(STRING)

Lower(text) == [s \in Text |-> [i \in DOMAIN s |-> LowerChar(s[i])]][text]

IsSpace(c) == c = " "

Strip(text) == [s \in Text |->
    IF \A i \in DOMAIN s : IsSpace(s[i]) THEN <<>>
    ELSE LET first == CHOOSE i \in DOMAIN s :
                          /\ ~IsSpace(s[i])
                          /\ \A j \in 1..(i-1) : IsSpace(s[j])
             last  == CHOOSE i \in DOMAIN s :
                          /\ ~IsSpace(s[i])
                          /\ \A j \in (i+1)..Len(s) : IsSpace(s[j])
         IN  SubSeq(s, first, last)][text]

\* Python's `sub in s` on strings: sub occurs as a contiguous slice of s.
Contains(text, part) == [s \in Text, sub \in Text |->
    \E i \in 0..(Len(s) - Len(sub)) :
        \A k \in 1..Len(sub) : s[i + k] = sub[k]][text, part]

\* s.split(','): always at least one part, empty parts kept.
RECURSIVE Split(_)
Split(text) == [s \in Text |->
    IF \A i \in DOMAIN s : s[i] # ","
    THEN <<s>>
    ELSE LET p == CHOOSE i \in DOMAIN s :
                      s[i] = "," /\ \A j \in 1..(i-1) : s[j] # ","
         IN  <<SubSeq(s, 1, p - 1)>> \o Split(SubSeq(s, p + 1, Len(s)))][text]

normalize_text(text) == Strip(Lower(text))

\* dict.get(key, default)
Get(d, key, default) == IF key \in DOMAIN d THEN d[key] ELSE default

Range(s) == {s[i] : i \in DOMAIN s}

(***************************************************************************)
(* Numbers: exact rationals in lowest terms with a positive denominator.   *)
(***************************************************************************)
Abs(x) == IF x < 0 THEN -x ELSE x

GcdOf[a \in Nat, b \in Nat] == IF b = 0 THEN a ELSE GcdOf[b, a % b]

Gcd(a, b) == GcdOf[a, b]

Rat(n0, d0) == [n \in Int, d \in Int |->
    LET g == Gcd(Abs(n), Abs(d))
        s == IF d < 0 THEN -1 ELSE 1
    IN  [n |-> (s * n) \div g, d |-> (s * d) \div g]][n0, d0]

Num(k) == [n |-> k, d |-> 1]
\* The arithmetic is applied to values: each operation is a function on
\* Rational applied to its operands.
Rational == [n : Int, d : Int]
RAdd(a, b) == [x \in Rational, y \in Rational |-> Rat(x.n * y.d + y.n * x.d, x.d * y.d)][a, b]
RSub(a, b) == [x \in Rational, y \in Rational |-> Rat(x.n * y.d - y.n * x.d, x.d * y.d)][a, b]
RMul(a, b) == [x \in Rational, y \in Rational |-> Rat(x.n * y.n, x.d * y.d)][a, b]
RDiv(a, b) == [x \in Rational, y \in Rational |-> Rat(x.n * y.d, x.d * y.n)][a, b]
RLe(a, b) == [x \in Rational, y \in Rational |-> x.n * y.d <= y.n * x.d][a, b]
RLt(a, b) == [x \in Rational, y \in Rational |-> x.n * y.d < y.n * x.d][a, b]
RMin(a, b) == [x \in Rational, y \in Rational |-> IF RLe(x, y) THEN x ELSE y][a, b]
RMax(a, b) == [x \in Rational, y \in Rational |-> IF RLe(y, x) THEN x ELSE y][a, b]
Pct(k) == Rat(k, 100)

\* round(x, 2), to the nearest hundredth, a tie going to the even one.
Round2(x0) == [x \in Rational |->
    LET t == x.n * 100
        q == t \div x.d
        r == t - q * x.d
        up == \/ 2 * r > x.d
              \/ 2 * r = x.d /\ q % 2 = 1
    IN  Rat(IF up THEN q + 1 ELSE q, 100)][x0]

(***************************************************************************)
(* String literals of the scorer.                                          *)
(***************************************************************************)
S_remote == <<"r","e","m","o","t","e">>
S_engineer == <<"e","n","g","i","n","e","e","r">>
S_developer == <<"d","e","v","e","l","o","p","e","r">>
S_architect == <<"a","r","c","h","i","t","e","c","t">>
S_scientist == <<"s","c","i","e","n","t","i","s","t">>
S_phd == <<"p","h","d">>
S_ph_d == <<"p","h",".","d">>
S_doctorate == <<"d","o","c","t","o","r","a","t","e">>
S_master == <<"m","a","s","t","e","r">>
S_masters == <<"m","a","s","t","e","r","'","s">>
S_bachelor == <<"b","a","c","h","e","l","o","r">>
S_bachelors == <<"b","a","c","h","e","l","o","r","'","s">>
S_senior == <<"s","e","n","i","o","r">>
S_entry == <<"e","n","t","r","y">>
S_mid == <<"m","i","d">>

TechnicalKeywords == {S_engineer, S_developer, S_architect, S_scientist}

(***************************************************************************)
(* helpers.calculate_percentage_match                                      *)
(***************************************************************************)
\* Python's None as the value of a candidate's field.  A field has one type
\* in the model (a text, a list of texts, a number of years), so None is
\* written as a value of that type that no input takes.
NoneText == <<"None">>
NoneList == <<NoneText>>
NoneYears == -1

\* A match that tells upper case from lower case.
calculate_percentage_match_CaseSensitive(required, candidate) ==
    IF Len(required) = 0 THEN Num(100)
    ELSE LET required_set  == {Strip(item) : item \in Range(required)}
             candidate_set == {Strip(item) : item \in Range(candidate)}
             matches       == required_set \cap candidate_set
         IN  RMul(Rat(Cardinality(matches), Cardinality(required_set)), Num(100))

calculate_percentage_match(required, candidate) ==
    IF Len(required) = 0 THEN Num(100)
    ELSE LET required_set  == {Strip(Lower(item)) : item \in Range(required)}
             candidate_set == {Strip(Lower(item)) : item \in Range(candidate)}
             matches       == required_set \cap candidate_set
         IN  RMul(Rat(Cardinality(matches), Cardinality(required_set)), Num(100))

(***************************************************************************)
(* CandidateScorer: the four factor scores.                                *)
(***************************************************************************)
\* A skills score whose bonus may take it over 100.
_score_skills_match_Uncapped(candidate, job) ==
    LET required_skills  == Get(job, "required_skills", <<>>)
        candidate_skills == Get(candidate, "skills", <<>>)
        base_score == calculate_percentage_match(required_skills, candidate_skills)
        bonus == RMin(Num(10),
                      Num((Len(candidate_skills) - Len(required_skills)) * 2))
    IN  IF Len(required_skills) = 0 THEN Num(100)
        ELSE IF Len(candidate_skills) > Len(required_skills)
             THEN RAdd(base_score, bonus)
             ELSE base_score

_score_skills_match(candidate, job) ==
    LET required_skills  == Get(job, "required_skills", <<>>)
        candidate_skills == Get(candidate, "skills", <<>>)
        base_score == calculate_percentage_match(required_skills, candidate_skills)
        bonus == RMin(Num(10),
                      Num((Len(candidate_skills) - Len(required_skills)) * 2))
    IN  IF Len(required_skills) = 0 THEN Num(100)
        ELSE IF Len(candidate_skills) > Len(required_skills)
             THEN RMin(Num(100), RAdd(base_score, bonus))
             ELSE base_score

\* A table of ranges whose default is the range of entry.
LevelRange_UnknownIsEntry(required_level) ==
    IF required_level = S_entry THEN <<0, 2>>
    ELSE IF required_level = S_mid THEN <<3, 7>>
    ELSE IF required_level = S_senior THEN <<8, 15>>
    ELSE <<0, 2>>

\* level_ranges.get(required_level, (3, 7))
LevelRange(required_level) ==
    IF required_level = S_entry THEN <<0, 2>>
    ELSE IF required_level = S_mid THEN <<3, 7>>
    ELSE IF required_level = S_senior THEN <<8, 15>>
    ELSE <<3, 7>>

\* An experience score that penalises a year too many like a year too few.
_score_experience_SamePenalty(candidate, job) ==
    LET candidate_years == Get(candidate, "experience_years", 0)
        required_level  == Lower(Get(job, "experience_level", S_mid))
        min_years == LevelRange(required_level)[1]
        max_years == LevelRange(required_level)[2]
    IN  IF min_years <= candidate_years /\ candidate_years <= max_years
        THEN Num(100)
        ELSE IF candidate_years < min_years
             THEN RMax(Num(0), Num(100 - (min_years - candidate_years) * 20))
             ELSE RMax(Num(0), Num(100 - (candidate_years - max_years) * 20))

_score_experience(candidate, job) ==
    LET candidate_years == Get(candidate, "experience_years", 0)
        required_level  == Lower(Get(job, "experience_level", S_mid))
        min_years == LevelRange(required_level)[1]
        max_years == LevelRange(required_level)[2]
    IN  IF min_years <= candidate_years /\ candidate_years <= max_years
        THEN Num(100)
        ELSE IF candidate_years < min_years
             THEN RMax(Num(0), Num(100 - (min_years - candidate_years) * 20))
             ELSE RMax(Num(50), Num(100 - (candidate_years - max_years) * 10))

\* A location score that gives a remote candidate nothing.
_score_location_NoRemoteCandidate(candidate, job) ==
    LET job_location       == normalize_text(Get(job, "location", <<>>))
        candidate_location == normalize_text(Get(candidate, "location", <<>>))
        job_parts       == Split(job_location)
        candidate_parts == Split(candidate_location)
        matches == Cardinality({i \in DOMAIN job_parts :
                       \E j \in DOMAIN candidate_parts :
                           Contains(candidate_parts[j], Strip(job_parts[i]))})
    IN  IF Contains(job_location, S_remote) THEN Num(100)
        ELSE IF job_location = candidate_location THEN Num(100)
        ELSE IF matches > 0 THEN Num(70 + matches * 10)
        ELSE Num(40)

_score_location(candidate, job) ==
    LET job_location       == normalize_text(Get(job, "location", <<>>))
        candidate_location == normalize_text(Get(candidate, "location", <<>>))
        job_parts       == Split(job_location)
        candidate_parts == Split(candidate_location)
        matches == Cardinality({i \in DOMAIN job_parts :
                       \E j \in DOMAIN candidate_parts :
                           Contains(candidate_parts[j], Strip(job_parts[i]))})
    IN  IF Contains(job_location, S_remote) THEN Num(100)
        ELSE IF job_location = candidate_location THEN Num(100)
        ELSE IF matches > 0 THEN Num(70 + matches * 10)
        ELSE IF Contains(candidate_location, S_remote) THEN Num(80)
        ELSE Num(40)

\* An education score that looks for the lowest degree first.
_score_education_LowestFirst(candidate, job) ==
    LET raw       == Get(candidate, "education", <<>>)
        education == normalize_text(raw)
    IN  IF raw = NoneText \/ raw = <<>> THEN Num(60)
        ELSE IF Contains(education, S_bachelor) \/ Contains(education, S_bachelors)
             THEN Num(80)
        ELSE IF Contains(education, S_master) \/ Contains(education, S_masters)
             THEN Num(90)
        ELSE IF \/ Contains(education, S_phd)
                \/ Contains(education, S_ph_d)
                \/ Contains(education, S_doctorate) THEN Num(100)
        ELSE Num(60)

_score_education(candidate, job) ==
    LET raw       == Get(candidate, "education", <<>>)
        education == normalize_text(raw)
    IN  IF raw = NoneText \/ raw = <<>> THEN Num(60)
        ELSE IF \/ Contains(education, S_phd)
                \/ Contains(education, S_ph_d)
                \/ Contains(education, S_doctorate) THEN Num(100)
        ELSE IF Contains(education, S_master) \/ Contains(education, S_masters)
             THEN Num(90)
        ELSE IF Contains(education, S_bachelor) \/ Contains(education, S_bachelors)
             THEN Num(80)
        ELSE Num(60)

_get_matched_skills(candidate, job) ==
    LET required == {normalize_text(s) : s \in Range(Get(job, "required_skills", <<>>))}
        candidate_skills == {normalize_text(s) : s \in Range(Get(candidate, "skills", <<>>))}
    IN  required \cap candidate_skills

_get_missing_skills(candidate, job) ==
    LET required == {normalize_text(s) : s \in Range(Get(job, "required_skills", <<>>))}
        candidate_skills == {normalize_text(s) : s \in Range(Get(candidate, "skills", <<>>))}
    IN  required \ candidate_skills

(***************************************************************************)
(* CandidateScorer._adaptive_rule_based_weights                            *)
(***************************************************************************)
BaseWeights ==
    [skills_match |-> Pct(40), experience_match |-> Pct(30),
     location_match |-> Pct(15), education_match |-> Pct(15)]

LevelAdjusted(w, experience_level) ==
    IF experience_level = S_senior
    THEN [w EXCEPT !.experience_match = Pct(35), !.skills_match = Pct(40),
                   !.education_match = Pct(10), !.location_match = Pct(15)]
    ELSE IF experience_level = S_entry
    THEN [w EXCEPT !.education_match = Pct(25), !.skills_match = Pct(45),
                   !.experience_match = Pct(15), !.location_match = Pct(15)]
    ELSE w

\* A remote adjustment that lowers location and gives skills nothing.
RemoteAdjusted_KeepsSkills(w, location) ==
    IF Contains(location, S_remote)
    THEN [w EXCEPT !.location_match = Pct(5)]
    ELSE w

RemoteAdjusted(w, location) ==
    IF Contains(location, S_remote)
    THEN [w EXCEPT !.location_match = Pct(5),
                   !.skills_match = RAdd(w.skills_match, Pct(10))]
    ELSE w

TechnicalAdjusted(w, title_lower) ==
    IF \E kw \in TechnicalKeywords : Contains(title_lower, kw)
    THEN [w EXCEPT !.skills_match = RMin(Pct(50), RAdd(w.skills_match, Pct(5))),
                   !.education_match = RMax(Pct(10), RSub(w.education_match, Pct(5)))]
    ELSE w

_adaptive_rule_based_weights(job) ==
    LET experience_level == Lower(Get(job, "experience_level", S_mid))
        title_lower      == Lower(Get(job, "title", <<>>))
        location         == Lower(Get(job, "location", <<>>))
    IN  TechnicalAdjusted(
            RemoteAdjusted(LevelAdjusted(BaseWeights, experience_level), location),
            title_lower)

WeightSum(w) ==
    RAdd(RAdd(w.skills_match, w.experience_match),
         RAdd(w.location_match, w.education_match))

(***************************************************************************)
(* GroqLLM.generate.  A text is modelled by what the callers read of it:   *)
(* an "Error: ..." message produced by the client itself, or the content   *)
(* the service returned, of which re.search(r'\{[^}]+\}') and json.loads   *)
(* find no object ("none"), an object that does not parse ("unparsable")   *)
(* or a parsed dictionary ("object", obj).                                 *)
(***************************************************************************)
None == [none |-> TRUE]

ErrorText(msg) == [kind |-> "error", msg |-> msg]

TransportFailures == {"connection_error", "http_401", "http_error", "exception"}

\* llm: [api_key |-> BOOLEAN]; outcome: what the request does when one is sent.
generate(llm, outcome) ==
    IF ~llm.api_key
    THEN ErrorText("Error: No API key configured. Set GROQ_API_KEY in .env")
    ELSE IF outcome.transport = "connection_error"
    THEN ErrorText("Error: Cannot connect to Groq API")
    ELSE IF outcome.transport = "http_401"
    THEN ErrorText("Error: Invalid API key. Get one from https://console.groq.com/keys")
    ELSE IF outcome.transport = "http_error"
    THEN ErrorText("Error: {e}")
    ELSE IF outcome.transport = "exception"
    THEN ErrorText("Error: {str(e)}")
    ELSE outcome.content

(***************************************************************************)
(* CandidateScorer._determine_weights                                      *)
(***************************************************************************)
IsNumber(v) == DOMAIN v = {"n", "d"}

WeightKeys == {"skills_match", "experience_match", "location_match", "education_match"}

\* weights.get(key, default) for the four keys, with the code's defaults.
RawWeights(parsed) ==
    [skills_match     |-> Get(parsed, "skills_match", Pct(40)),
     experience_match |-> Get(parsed, "experience_match", Pct(30)),
     location_match   |-> Get(parsed, "location_match", Pct(15)),
     education_match  |-> Get(parsed, "education_match", Pct(15))]

\* A try block that returns the raw weights as they came.
TryAdvisoryWeights_Unnormalised(response) ==
    IF response.kind = "error" \/ response.json = "none"
    THEN [tag |-> "raise", exc |-> "ValueError"]
    ELSE IF response.json = "unparsable"
    THEN [tag |-> "raise", exc |-> "JSONDecodeError"]
    ELSE LET raw == RawWeights(response.obj)
         IN  IF \E k \in WeightKeys : ~IsNumber(raw[k])
             THEN [tag |-> "raise", exc |-> "TypeError"]
             ELSE IF RLt(Num(0), WeightSum(raw))
                  THEN [tag |-> "return", weights |-> raw]
                  ELSE [tag |-> "fallthrough"]

\* The body of the try block: what it returns, or the exception it raises,
\* or "fallthrough" when it ends without returning (total <= 0).
TryAdvisoryWeights(response) ==
    IF response.kind = "error" \/ response.json = "none"
    THEN [tag |-> "raise", exc |-> "ValueError"]
    ELSE IF response.json = "unparsable"
    THEN [tag |-> "raise", exc |-> "JSONDecodeError"]
    ELSE LET raw == RawWeights(response.obj)
         IN  IF \E k \in WeightKeys : ~IsNumber(raw[k])
             THEN [tag |-> "raise", exc |-> "TypeError"]
             ELSE LET total == WeightSum(raw)
                  IN  IF RLt(Num(0), total)
                      THEN [tag |-> "return",
                            weights |-> [k \in WeightKeys |-> RDiv(raw[k], total)]]
                      ELSE [tag |-> "fallthrough"]

\* A handler that catches nothing.
CaughtByExcept_Nothing(exc) == FALSE

\* A handler that lets TypeError through.
CaughtByExcept_ValueErrorOnly(exc) == exc \in {"ValueError", "JSONDecodeError"}

\* except Exception as e: every exception the try block raises is one.
CaughtByExcept(exc) == exc \in {"ValueError", "JSONDecodeError", "TypeError"}

_determine_weights(use_ai, llm, job, outcome) ==
    IF use_ai /\ llm # None
    THEN LET r == TryAdvisoryWeights(generate(llm, outcome))
         IN  IF r.tag = "return"
             THEN [raised |-> FALSE, weights |-> r.weights]
             ELSE IF r.tag = "raise" /\ ~CaughtByExcept(r.exc)
             THEN [raised |-> TRUE, exc |-> r.exc]
             ELSE [raised |-> FALSE, weights |-> _adaptive_rule_based_weights(job)]
    ELSE [raised |-> FALSE, weights |-> _adaptive_rule_based_weights(job)]

\* Whether _determine_weights calls self.llm.generate.
AsksAdvisory(use_ai, llm) == use_ai /\ llm # None

(***************************************************************************)
(* CandidateScorer.score_candidate                                         *)
(***************************************************************************)
\* A weighted sum that leaves education out.
OverallScore_WithoutEducation(skills, experience, location, education, w) ==
    RAdd(RAdd(RMul(skills, w.skills_match), RMul(experience, w.experience_match)),
         RMul(location, w.location_match))

OverallScore(skills, experience, location, education, w) ==
    RAdd(RAdd(RMul(skills, w.skills_match), RMul(experience, w.experience_match)),
         RAdd(RMul(location, w.location_match), RMul(education, w.education_match)))

\* A scorer that resolves the weights anew for every candidate.
NeedsWeights_Always(self_weights) == TRUE

\* if not self.weights
NeedsWeights(self_weights) == self_weights = None

\* The exception the four factor scores raise for this candidate, in the
\* order score_candidate calls them, or "none".
\*   skills None:           calculate_percentage_match iterates over None
\*   experience_years None: min_years <= None
\*   location None:         normalize_text calls None.lower()
\*   education None:        handled (education is None or education == '')
FactorScoresRaise(candidate, job) ==
    IF /\ Get(candidate, "skills", <<>>) = NoneList
       /\ Len(Get(job, "required_skills", <<>>)) # 0
    THEN "TypeError"
    ELSE IF Get(candidate, "experience_years", 0) = NoneYears THEN "TypeError"
    ELSE IF Get(candidate, "location", <<>>) = NoneText THEN "AttributeError"
    ELSE "none"

\* The exception raised while the breakdown is built, or "none":
\* _get_matched_skills iterates over candidate.get('skills', []).
BreakdownRaises(candidate, job) ==
    IF Get(candidate, "skills", <<>>) = NoneList THEN "TypeError" ELSE "none"

\* self_weights: the scorer's weights field before the call (None when unset).
\* Returns the field after the call, the score and the breakdown.
score_candidate(self_weights, use_ai, llm, candidate, job, outcome) ==
    LET skills_score     == _score_skills_match(candidate, job)
        experience_score == _score_experience(candidate, job)
        location_score   == _score_location(candidate, job)
        education_score  == _score_education(candidate, job)
        resolve == NeedsWeights(self_weights)
        dw      == _determine_weights(use_ai, llm, job, outcome)
    IN  IF FactorScoresRaise(candidate, job) # "none"
        THEN [raised |-> TRUE, exc |-> FactorScoresRaise(candidate, job),
              weights |-> self_weights, resolved |-> FALSE, asked |-> FALSE]
        ELSE IF resolve /\ dw.raised
        THEN [raised |-> TRUE, exc |-> dw.exc, weights |-> self_weights,
              resolved |-> FALSE, asked |-> AsksAdvisory(use_ai, llm)]
        ELSE IF BreakdownRaises(candidate, job) # "none"
        THEN [raised |-> TRUE, exc |-> BreakdownRaises(candidate, job),
              weights |-> IF resolve THEN dw.weights ELSE self_weights,
              resolved |-> resolve,
              asked |-> resolve /\ AsksAdvisory(use_ai, llm)]
        ELSE LET w == IF resolve THEN dw.weights ELSE self_weights
                 overall_score == OverallScore(skills_score, experience_score,
                                               location_score, education_score, w)
             IN  [raised |-> FALSE,
                  weights |-> w,
                  resolved |-> resolve,
                  asked |-> resolve /\ AsksAdvisory(use_ai, llm),
                  score |-> overall_score,
                  breakdown |->
                      [overall_score    |-> Round2(overall_score),
                       skills_score     |-> Round2(skills_score),
                       experience_score |-> Round2(experience_score),
                       location_score   |-> Round2(location_score),
                       education_score  |-> Round2(education_score),
                       weights_used     |-> w,
                       skills_matched   |-> _get_matched_skills(candidate, job),
                       skills_missing   |-> _get_missing_skills(candidate, job)]]

(***************************************************************************)
(* Inputs.  A key left out of a dictionary is absent, as for dict.get.     *)
(***************************************************************************)
Absent == <<>>
Some(v) == <<v>>
Present(S) == {Some(v) : v \in S}
Optional(S) == Present(S) \cup {Absent}

Field(key, opt) == IF opt = Absent THEN <<>> ELSE (key :> opt[1])

MakeJob(title, level, location, skills) ==
    Field("title", title) @@ Field("experience_level", level)
        @@ Field("location", location) @@ Field("required_skills", skills)

MakeCandidate(name, skills, years, location, education) ==
    Field("full_name", name) @@ Field("skills", skills)
        @@ Field("experience_years", years) @@ Field("location", location)
        @@ Field("education", education)

\* The lists over S of length up to n.
RECURSIVE SeqsUpTo(_, _)
SeqsUpTo(S, n) ==
    IF n = 0 THEN {<<>>}
    ELSE LET shorter == SeqsUpTo(S, n - 1)
         IN  shorter \cup {Append(q, x) : q \in shorter, x \in S}

\* Texts used as inputs.
Title ==
    [SeniorPythonDeveloper |-> <<"S","e","n","i","o","r"," ","P","y","t","h","o","n"," ","D","e","v","e","l","o","p","e","r">>,
     DataScientist |-> <<"D","a","t","a"," ","S","c","i","e","n","t","i","s","t">>,
     EngineeringManager |-> <<"E","n","g","i","n","e","e","r","i","n","g"," ","M","a","n","a","g","e","r">>,
     CloudArchitect |-> <<"C","l","o","u","d"," ","A","R","C","H","I","T","E","C","T">>,
     Developer |-> <<"D","e","v","e","l","o","p","e","r">>,
     ProductManager |-> <<"P","r","o","d","u","c","t"," ","M","a","n","a","g","e","r">>]
Level ==
    [entry |-> <<"e","n","t","r","y">>,
     mid |-> <<"m","i","d">>,
     senior |-> <<"s","e","n","i","o","r">>,
     Senior |-> <<"S","e","n","i","o","r">>,
     lead |-> <<"l","e","a","d">>,
     SENIOR |-> <<"S","E","N","I","O","R">>,
     Entry |-> <<"E","n","t","r","y">>]
Loc ==
    [Remote |-> <<"R","e","m","o","t","e">>,
     SanFrancisco |-> <<"S","a","n"," ","F","r","a","n","c","i","s","c","o",","," ","C","A">>,
     AustinRemotePossible |-> <<"A","u","s","t","i","n",","," ","T","X"," ","(","r","e","m","o","t","e"," ","p","o","s","s","i","b","l","e",")">>,
     SohoNyc |-> <<"S","o","h","o",","," ","N","Y","C",","," ","N","Y",","," ","U","S">>,
     NycSoho |-> <<"N","Y","C",","," ","S","o","h","o",","," ","N","Y",","," ","U","S">>,
     NYC |-> <<"N","Y","C">>,
     Boston |-> <<"B","o","s","t","o","n">>,
     AustinTX |-> <<"A","u","s","t","i","n",","," ","T","X">>,
     HoustonTX |-> <<"H","o","u","s","t","o","n",","," ","T","X">>,
     sf_spaced |-> <<" ","s","a","n"," ","f","r","a","n","c","i","s","c","o",","," ","c","a"," ">>,
     RemoteUS |-> <<"R","e","m","o","t","e",","," ","U","S">>]
Sk ==
    [Python |-> <<"P","y","t","h","o","n">>,
     python |-> <<"p","y","t","h","o","n">>,
     AWS |-> <<"A","W","S">>,
     aws_spaced |-> <<" ","a","w","s"," ">>,
     Docker |-> <<"D","o","c","k","e","r">>,
     Java |-> <<"J","a","v","a">>,
     Go |-> <<"G","o">>,
     Rust |-> <<"R","u","s","t">>,
     Python_spaced |-> <<" ","P","y","t","h","o","n"," ">>]
Ed ==
    [Masters |-> <<"M","a","s","t","e","r","'","s">>,
     PhD |-> <<"P","h","D"," ","i","n"," ","C","S">>,
     Bachelor |-> <<"B","a","c","h","e","l","o","r"," ","o","f"," ","S","c","i","e","n","c","e">>,
     PhDotD |-> <<"P","h",".","D">>,
     Doctorate |-> <<"D","o","c","t","o","r","a","t","e">>,
     BachelorAndMaster |-> <<"B","a","c","h","e","l","o","r",","," ","M","A","S","T","E","R">>,
     MasterAndPhD |-> <<"M","a","s","t","e","r","'","s",","," ","P","h","D">>,
     MBA |-> <<"M","B","A">>,
     Blank |-> <<" "," ">>]
Name ==
    [A |-> <<"A">>,
     B |-> <<"B">>]

TitlePool ==
    {Title.SeniorPythonDeveloper, Title.DataScientist, Title.EngineeringManager,
     Title.CloudArchitect, Title.ProductManager}

LevelPool == {Level.entry, Level.mid, Level.senior, Level.Senior, Level.lead}

JobLocationPool ==
    {Loc.Remote, Loc.SanFrancisco, Loc.AustinRemotePossible, Loc.SohoNyc}

SkillsPython == <<Sk.Python>>
SkillsPythonAws == <<Sk.Python, Sk.AWS>>
SkillsThree == <<Sk.python, Sk.aws_spaced, Sk.Docker>>
SkillsOther == <<Sk.Java, Sk.Python, Sk.Go, Sk.Rust>>

ScoreJobPool ==
    {MakeJob(t, l, loc, sk) :
        t \in Present({Title.SeniorPythonDeveloper, Title.ProductManager}),
        l \in Present({Level.entry, Level.senior, Level.lead}),
        loc \in Present({Loc.Remote, Loc.SanFrancisco, Loc.SohoNyc}),
        sk \in Present({<<>>, SkillsPythonAws, SkillsThree})}

YearsPool == {0, 1, 5, 8, 20}

CandidatePool ==
    {MakeCandidate(Some(Name.A), sk, y, loc, ed) :
        sk \in Present({<<>>, SkillsPython, SkillsThree, SkillsOther}),
        y \in Present(YearsPool),
        loc \in Present({Loc.SanFrancisco, Loc.Remote, Loc.NycSoho, Loc.Boston}),
        ed \in Present({<<>>, Ed.Masters, Ed.PhD})}

WeightJobPool ==
    {MakeJob(t, l, loc, Some(SkillsPythonAws)) :
        t \in Optional(TitlePool), l \in Optional(LevelPool),
        loc \in Optional(JobLocationPool)}

(***************************************************************************)
(* What the advisory service can answer.                                   *)
(***************************************************************************)
Prose == [kind |-> "content", json |-> "none"]
BrokenJson == [kind |-> "content", json |-> "unparsable"]
JsonObject(obj) == [kind |-> "content", json |-> "object", obj |-> obj]

FourWeights(s, e, l, d) ==
    [skills_match |-> s, experience_match |-> e,
     location_match |-> l, education_match |-> d]

NotANumber == [s |-> "high"]
JsonNull == [null |-> TRUE]

AdvisoryObjects ==
    {FourWeights(Pct(50), Pct(30), Pct(10), Pct(10)),
     FourWeights(Num(5), Num(3), Num(1), Num(1)),
     FourWeights(Pct(50), Pct(30), Pct(10), Pct(10)) @@ [reasoning |-> NotANumber],
     [skills_match |-> Pct(70)],
     [skills_match |-> Pct(60), experience_match |-> Pct(20), location_match |-> Pct(20)],
     [reasoning |-> NotANumber],
     FourWeights(Num(0), Num(0), Num(0), Num(0)),
     FourWeights(Num(-1), Pct(30), Pct(20), Pct(10)),
     FourWeights(Pct(150), Pct(-50), Num(0), Num(0)),
     FourWeights(NotANumber, Pct(30), Pct(10), Pct(10)),
     FourWeights(Pct(50), Pct(30), Pct(10), JsonNull)}

AdvisoryContents == {Prose, BrokenJson} \cup {JsonObject(o) : o \in AdvisoryObjects}

Answered(content) == [transport |-> "ok", content |-> content]
Failed(transport) == [transport |-> transport]

AdvisoryOutcomes ==
    {Failed(t) : t \in TransportFailures} \cup {Answered(c) : c \in AdvisoryContents}

\* CandidateScorer.__init__: llm = GroqLLM() if use_ai_weights else None, and
\* GroqLLM.__init__ reads the API key, which may be unset.
ScorerConfigs ==
    {[use_ai_weights |-> FALSE, llm |-> None]}
        \cup {[use_ai_weights |-> TRUE, llm |-> [api_key |-> k]] : k \in BOOLEAN}

(***************************************************************************)
(* State.  The scorer object (use_ai_weights, llm, weights), and for the   *)
(* checks of single functions their input (fn_in) and output (fn_out).     *)
(***************************************************************************)
VARIABLES use_ai_weights, llm, weights, fn_in, fn_out,
          pc, job, candidates, top_n, scored_candidates, result,
          advisory_log, resolved

scorer == <<use_ai_weights, llm, weights>>
harness == <<fn_in, fn_out>>
call == <<pc, job, candidates, top_n, scored_candidates, result,
          advisory_log, resolved>>
vars == <<scorer, harness, call>>

\* No rank_candidates call has been made.
NoCall ==
    /\ pc = "idle"
    /\ job = None
    /\ candidates = <<>>
    /\ top_n = Absent
    /\ scored_candidates = <<>>
    /\ result = None
    /\ advisory_log = <<>>
    /\ resolved = <<>>

(***************************************************************************)
(* Weight resolution on its own: a fresh scorer, one job, one answer.      *)
(***************************************************************************)
InitWeights ==
    /\ \E cfg \in ScorerConfigs :
          /\ use_ai_weights = cfg.use_ai_weights
          /\ llm = cfg.llm
    /\ weights = None
    /\ fn_in \in [job : WeightJobPool]
    /\ fn_out = None
    /\ NoCall

RuleBasedWeights ==
    /\ fn_out = None
    /\ fn_out' = [fn |-> "_adaptive_rule_based_weights",
                  weights |-> _adaptive_rule_based_weights(fn_in.job)]
    /\ UNCHANGED <<scorer, fn_in, call>>

DetermineWeights ==
    /\ fn_out = None
    /\ \E outcome \in AdvisoryOutcomes :
          fn_out' = [fn |-> "_determine_weights",
                     outcome |-> outcome,
                     result |-> _determine_weights(use_ai_weights, llm,
                                                   fn_in.job, outcome)]
    /\ UNCHANGED <<scorer, fn_in, call>>

NextWeights == RuleBasedWeights \/ DetermineWeights

SpecWeights == InitWeights /\ [][NextWeights]_vars


(***************************************************************************)
(* score_candidate on its own: a fresh scorer, one candidate, one job.     *)
(***************************************************************************)
ScoreOutcomes ==
    {Failed("connection_error"),
     Answered(JsonObject(FourWeights(Num(5), Num(3), Num(1), Num(1)))),
     Answered(JsonObject(FourWeights(Num(1), Num(1), Num(1), Num(0))))}

InitScore ==
    /\ \E cfg \in ScorerConfigs :
          /\ use_ai_weights = cfg.use_ai_weights
          /\ llm = cfg.llm
          /\ cfg.llm # None => cfg.llm.api_key
    /\ weights = None
    /\ fn_in \in [job : ScoreJobPool, candidate : CandidatePool]
    /\ fn_out = None
    /\ NoCall

ScoreCandidate ==
    /\ fn_out = None
    /\ \E outcome \in ScoreOutcomes :
          LET r == score_candidate(weights, use_ai_weights, llm,
                                   fn_in.candidate, fn_in.job, outcome)
          IN  /\ fn_out' = [fn |-> "score_candidate", result |-> r]
              /\ weights' = r.weights
    /\ UNCHANGED <<use_ai_weights, llm, fn_in, call>>

NextScore == ScoreCandidate

SpecScore == InitScore /\ [][NextScore]_vars


(***************************************************************************)
(* calculate_percentage_match on its own: two lists of skills.             *)
(***************************************************************************)

MatchTexts == {Sk.Python, Sk.python, Sk.Python_spaced, Sk.Java, Sk.AWS}

SkillLists == SeqsUpTo(MatchTexts, MaxSkills)

InitMatch ==
    /\ use_ai_weights = FALSE
    /\ llm = None
    /\ weights = None
    /\ fn_in \in [required : SkillLists, candidate : SkillLists]
    /\ fn_out = None
    /\ NoCall

PercentageMatch ==
    /\ fn_out = None
    /\ fn_out' = [fn |-> "calculate_percentage_match",
                  result |-> calculate_percentage_match(fn_in.required,
                                                        fn_in.candidate)]
    /\ UNCHANGED <<scorer, fn_in, call>>

NextMatch == PercentageMatch

SpecMatch == InitMatch /\ [][NextMatch]_vars


(***************************************************************************)
(* score_candidate for candidates with fields left out or set to None.     *)
(***************************************************************************)
\* Each of the four scored fields has a value, or is missing, or is None.
SparseCandidatePool ==
    {MakeCandidate(Some(Name.A), sk, y, loc, ed) :
        sk \in {Some(SkillsPython), Absent, Some(NoneList)},
        y \in {Some(5), Absent, Some(NoneYears)},
        loc \in {Some(Loc.SanFrancisco), Absent, Some(NoneText)},
        ed \in {Some(Ed.Masters), Absent, Some(NoneText)}}

InitAbsent ==
    /\ \E cfg \in ScorerConfigs :
          /\ use_ai_weights = cfg.use_ai_weights
          /\ llm = cfg.llm
          /\ cfg.llm # None => cfg.llm.api_key
    /\ weights = None
    /\ fn_in \in [job : ScoreJobPool, candidate : SparseCandidatePool]
    /\ fn_out = None
    /\ NoCall

SpecAbsent == InitAbsent /\ [][NextScore]_vars


(***************************************************************************)
(* CandidateRanker.rank_candidates, step by step.                          *)
(***************************************************************************)
\* if top_n: None and 0 are both false.  top_n is Absent (None) or Some(k).
Truthy(tn) == tn # Absent /\ tn[1] # 0

\* A slice that keeps the whole list.
Take_Everything(seq, k) == seq

\* seq[:k] for k >= 0
Take(seq, k) == SubSeq(seq, 1, IF k < Len(seq) THEN k ELSE Len(seq))

\* The entry built for a scored candidate: a copy of the candidate with
\* match_score and match_details set.  src is the candidate's position in
\* the input list; it is not a field of the entry.
ScoredEntry(src, candidate, r) ==
    [src |-> src,
     rec |-> [match_score |-> r.score, match_details |-> r.breakdown] @@ candidate]

\* Scoring without the copy: match_score and match_details are written
\* into the input candidate itself.
InputAfterScoring_NoCopy(candidate, entry) == entry.rec

\* candidate_with_score = candidate.copy(): the entry is a dictionary of its
\* own, and the input candidate is after the loop body what it was before.
InputAfterScoring(candidate, entry) == candidate

\* A sort that puts an entry in front of the entries it ties with.
InsertByScore_BeforeTies(sorted, e) ==
    LET ahead == {k \in DOMAIN sorted :
                     RLt(e.rec.match_score, sorted[k].rec.match_score)}
        pos == Cardinality(ahead)
    IN  SubSeq(sorted, 1, pos) \o <<e>> \o SubSeq(sorted, pos + 1, Len(sorted))

\* A sort without reverse=True: the lowest score first.
InsertByScore_Ascending(sorted, e) ==
    LET ahead == {k \in DOMAIN sorted :
                     RLe(sorted[k].rec.match_score, e.rec.match_score)}
        pos == Cardinality(ahead)
    IN  SubSeq(sorted, 1, pos) \o <<e>> \o SubSeq(sorted, pos + 1, Len(sorted))

\* list.sort(key=match_score, reverse=True): stable, so an entry goes behind
\* every entry already placed whose score is at least its own.
InsertByScore(sorted, e) ==
    LET ahead == {k \in DOMAIN sorted :
                     RLe(e.rec.match_score, sorted[k].rec.match_score)}
        pos == Cardinality(ahead)
    IN  SubSeq(sorted, 1, pos) \o <<e>> \o SubSeq(sorted, pos + 1, Len(sorted))

RECURSIVE SortByScoreFrom(_, _)
SortByScoreFrom(sorted, rest) ==
    IF rest = <<>> THEN sorted
    ELSE SortByScoreFrom(InsertByScore(sorted, Head(rest)), Tail(rest))

SortByScore(entries) == SortByScoreFrom(<<>>, entries)

\* Rankings counted from 0.
AssignRankings_FromZero(entries) ==
    [k \in DOMAIN entries |->
        [entries[k] EXCEPT !.rec = ("ranking" :> (k - 1)) @@ entries[k].rec]]

\* for rank, candidate in enumerate(scored_candidates, 1)
AssignRankings(entries) ==
    [k \in DOMAIN entries |->
        [entries[k] EXCEPT !.rec = ("ranking" :> k) @@ entries[k].rec]]

\* An enrichment that zeroes the score of a candidate whose call failed.
WithAssessment_FailureClearsScore(entry, assessment) ==
    [entry EXCEPT !.rec =
        ("ai_assessment" :> assessment) @@
        (IF assessment.kind = "error"
         THEN ("match_score" :> Num(0)) @@ entry.rec
         ELSE entry.rec)]

\* candidate['ai_assessment'] = assessment
WithAssessment(entry, assessment) ==
    [entry EXCEPT !.rec = ("ai_assessment" :> assessment) @@ entry.rec]

\* scored_candidates[:top_n] if top_n else scored_candidates
Returned(entries, tn) ==
    IF Truthy(tn) THEN Take(entries, tn[1]) ELSE entries

(***************************************************************************)
(* The ranker: one CandidateRanker object, called again and again.         *)
(***************************************************************************)
Cand_A == MakeCandidate(Some(Name.A), Some(<<Sk.Python, Sk.AWS, Sk.Docker>>),
                        Some(10), Some(Loc.NYC), Some(Ed.Masters))
Cand_B == MakeCandidate(Some(Name.B), Some(SkillsPython), Some(1),
                        Some(Loc.Remote), Some(<<>>))

RankCandidatePool == {Cand_A, Cand_B}

Job_SeniorRemote ==
    MakeJob(Absent, Some(Level.senior), Some(Loc.Remote), Some(SkillsPythonAws))
Job_EntryOnSite ==
    MakeJob(Some(Title.Developer), Some(Level.entry), Some(Loc.NYC), Some(SkillsPython))

RankJobPool == {Job_SeniorRemote, Job_EntryOnSite}

CandidateLists == SeqsUpTo(RankCandidatePool, MaxCandidates)

TopNPool == Optional({0, 1, 2, MaxCandidates + 1})

\* What the weight request does: the service is unreachable, the request
\* times out (an exception of requests.post), the answer is not JSON, or it
\* is a JSON object of four weights.
WeightOutcomes ==
    {Failed("connection_error"), Failed("exception"), Answered(Prose),
     Answered(BrokenJson),
     Answered(JsonObject(FourWeights(Num(5), Num(3), Num(1), Num(1))))}

\* What an assessment request does: an HTTP error, a timeout, or a text.
EnhanceOutcomes == {Failed("http_error"), Failed("exception"), Answered(Prose)}

Init ==
    /\ \E cfg \in ScorerConfigs :
          /\ use_ai_weights = cfg.use_ai_weights
          /\ llm = cfg.llm
    /\ weights = None
    /\ fn_in = None
    /\ fn_out = None
    /\ NoCall

Enter(cands, j, tn) ==
    /\ pc = "idle"
    /\ pc' = "score"
    /\ job' = j
    /\ candidates' = cands
    /\ top_n' = tn
    /\ scored_candidates' = <<>>
    /\ result' = None
    /\ advisory_log' = <<>>
    /\ resolved' = <<>>
    /\ UNCHANGED <<scorer, harness>>

\* rank_candidates(candidates, job, top_n)
RankCandidates ==
    \E cands \in CandidateLists, j \in RankJobPool, tn \in TopNPool :
        Enter(cands, j, tn)

\* get_shortlist(candidates, job, count): rank_candidates with top_n = count
GetShortlist ==
    \E cands \in CandidateLists, j \in RankJobPool, count \in {1, 2, MaxCandidates + 1} :
        Enter(cands, j, Some(count))

\* One turn of `for candidate in candidates`.
ScoreNext ==
    /\ pc = "score"
    /\ Len(scored_candidates) < Len(candidates)
    /\ \E outcome \in WeightOutcomes :
        \E src \in {Len(scored_candidates) + 1} :
        \E r \in {score_candidate(weights, use_ai_weights, llm,
                                  candidates[src], job, outcome)} :
              /\ weights' = r.weights
              /\ advisory_log' =
                     IF r.asked
                     THEN Append(advisory_log,
                                 [purpose |-> "weights", at |-> src])
                     ELSE advisory_log
              /\ IF r.raised
                 THEN /\ pc' = "raised"
                      /\ UNCHANGED <<scored_candidates, resolved, candidates>>
                 ELSE /\ pc' = pc
                      /\ scored_candidates' =
                             Append(scored_candidates,
                                    ScoredEntry(src, candidates[src], r))
                      /\ candidates' =
                             [candidates EXCEPT
                                 ![src] = InputAfterScoring(
                                              candidates[src],
                                              ScoredEntry(src, candidates[src], r))]
                      /\ resolved' = IF r.resolved
                                     THEN Append(resolved, r.weights)
                                     ELSE resolved
    /\ UNCHANGED <<use_ai_weights, llm, harness, job, top_n, result>>

\* After the loop: sort by score, descending, and number the entries.
SortAndRank ==
    /\ pc = "score"
    /\ Len(scored_candidates) = Len(candidates)
    /\ scored_candidates' = AssignRankings(SortByScore(scored_candidates))
    /\ pc' = IF use_ai_weights /\ Truthy(top_n) THEN "enhance" ELSE "finish"
    /\ UNCHANGED <<scorer, harness, job, candidates, top_n, result,
                   advisory_log, resolved>>

\* Entries of scored_candidates[:top_n] that already carry an assessment.
Enhanced == {k \in DOMAIN scored_candidates :
                "ai_assessment" \in DOMAIN scored_candidates[k].rec}

\* One turn of `for candidate in top_candidates` of _enhance_top_candidates.
EnhanceNext ==
    /\ pc = "enhance"
    /\ Cardinality(Enhanced) < Len(Take(scored_candidates, top_n[1]))
    /\ \E outcome \in EnhanceOutcomes :
          LET k == Cardinality(Enhanced) + 1
              assessment == generate(llm, outcome)
          IN  /\ scored_candidates' =
                     [scored_candidates EXCEPT
                         ![k] = WithAssessment(scored_candidates[k], assessment)]
              /\ advisory_log' =
                     Append(advisory_log,
                            [purpose |-> "assessment",
                             at |-> scored_candidates[k].src])
    /\ UNCHANGED <<scorer, harness, pc, job, candidates, top_n, result, resolved>>

EnhanceDone ==
    /\ pc = "enhance"
    /\ Cardinality(Enhanced) = Len(Take(scored_candidates, top_n[1]))
    /\ pc' = "finish"
    /\ UNCHANGED <<scorer, harness, job, candidates, top_n, scored_candidates,
                   result, advisory_log, resolved>>

\* logger.info(f"... {scored_candidates[0]['match_score']:.2f}") and return.
Finish ==
    /\ pc = "finish"
    /\ IF scored_candidates = <<>>
       THEN /\ pc' = "raised"
            /\ result' = [exc |-> "IndexError"]
       ELSE /\ pc' = "returned"
            /\ result' = [list |-> Returned(scored_candidates, top_n)]
    /\ UNCHANGED <<scorer, harness, job, candidates, top_n, scored_candidates,
                   advisory_log, resolved>>

\* The call is over (a list was returned or the exception went up); its
\* frame is gone and the caller may call the same ranker again.
CallerContinues ==
    /\ pc \in {"returned", "raised"}
    /\ pc' = "idle"
    /\ job' = None
    /\ candidates' = <<>>
    /\ top_n' = Absent
    /\ scored_candidates' = <<>>
    /\ result' = None
    /\ advisory_log' = <<>>
    /\ resolved' = <<>>
    /\ UNCHANGED <<scorer, harness>>

Next ==
    \/ RankCandidates
    \/ GetShortlist
    \/ ScoreNext
    \/ SortAndRank
    \/ EnhanceNext
    \/ EnhanceDone
    \/ Finish
    \/ CallerContinues

Spec == Init /\ [][Next]_vars

\* A call that has been entered keeps running: every step of it is the
\* interpreter going on with the next statement, and GroqLLM.generate ends
\* every request after 30 seconds at the latest (timeout=30).
CallRuns == ScoreNext \/ SortAndRank \/ EnhanceNext \/ EnhanceDone \/ Finish

SpecRun == Init /\ [][Next]_vars /\ WF_vars(CallRuns)


(***************************************************************************)
(* Properties of weight resolution (checked under SpecWeights).            *)
(***************************************************************************)
RuleWeightsComputed ==
    fn_out # None /\ fn_out.fn = "_adaptive_rule_based_weights"

WeightsDetermined ==
    fn_out # None /\ fn_out.fn = "_determine_weights"

\* C1: for every job (any experience level, remote or not, technical title
\* or not) the four weights returned by _adaptive_rule_based_weights sum
\* to 1.0.
C1_RuleWeightsSumToOne ==
    RuleWeightsComputed => WeightSum(fn_out.weights) = Num(1)

\* The text the scorer gets back carries no usable weights: the client
\* produced an error message, or the content has no JSON object, or one that
\* does not parse, or a weight that is no number, or weights whose sum is
\* not above 0.
AdvisoryFails(client, outcome) ==
    \/ ~client.api_key
    \/ outcome.transport \in TransportFailures
    \/ outcome.content.json \in {"none", "unparsable"}
    \/ \E k \in WeightKeys \cap DOMAIN outcome.content.obj :
           ~IsNumber(outcome.content.obj[k])
    \/ RLe(WeightSum(RawWeights(outcome.content.obj)), Num(0))

\* C10: when the weight advisory fails in any way, _determine_weights raises
\* nothing and returns exactly the rule-based weights of the job.
C10_AdvisoryFailureFallsBack ==
    (WeightsDetermined /\ use_ai_weights /\ AdvisoryFails(llm, fn_out.outcome))
        => /\ ~fn_out.result.raised
           /\ fn_out.result.weights = _adaptive_rule_based_weights(fn_in.job)

\* A non-numeric weight arrived from a reachable service, and the job is one
\* whose rule-based weights differ from the base weights.
C10_Witness ==
    /\ WeightsDetermined /\ use_ai_weights /\ llm.api_key
    /\ fn_out.outcome.transport = "ok"
    /\ fn_out.outcome.content.json = "object"
    /\ "skills_match" \in DOMAIN fn_out.outcome.content.obj
    /\ ~IsNumber(fn_out.outcome.content.obj.skills_match)
    /\ ~fn_out.result.raised
    /\ fn_out.result.weights = _adaptive_rule_based_weights(fn_in.job)
    /\ fn_out.result.weights # BaseWeights

\* The advisory answered with a JSON object.
AdvisoryObject ==
    /\ WeightsDetermined /\ use_ai_weights /\ llm.api_key
    /\ fn_out.outcome.transport = "ok"
    /\ fn_out.outcome.content.json = "object"

C12_MissingKeysFallBack ==
    (AdvisoryObject /\ ~(WeightKeys \subseteq DOMAIN fn_out.outcome.content.obj))
        => /\ ~fn_out.result.raised
           /\ fn_out.result.weights = _adaptive_rule_based_weights(fn_in.job)

(***************************************************************************)
(* Properties of score_candidate (checked under SpecScore).                *)
(***************************************************************************)
Scored ==
    fn_out # None /\ fn_out.fn = "score_candidate" /\ ~fn_out.result.raised

InRange(x) == RLe(Num(0), x) /\ RLe(x, Num(100))

C3_SubScoresInRange ==
    Scored => /\ InRange(fn_out.result.breakdown.skills_score)
              /\ InRange(fn_out.result.breakdown.experience_score)
              /\ InRange(fn_out.result.breakdown.location_score)
              /\ InRange(fn_out.result.breakdown.education_score)

(***************************************************************************)
(* Properties of calculate_percentage_match (checked under SpecMatch).     *)
(***************************************************************************)
MatchCalled == fn_out # None /\ fn_out.fn = "calculate_percentage_match"

\* N: every string in lower case and trimmed, duplicates collapsed.
Normalized(list) == {Strip(Lower(list[i])) : i \in DOMAIN list}

ToUpper ==
    [c \in {LowerCase[i] : i \in DOMAIN LowerCase} |->
        UpperCase[CHOOSE i \in DOMAIN LowerCase : LowerCase[i] = c]]

\* The list in another letter case, padded with blanks, in reverse order
\* and with every item twice.
Disguised(list) ==
    LET upper(t) == [i \in DOMAIN t |->
                        IF t[i] \in DOMAIN ToUpper THEN ToUpper[t[i]] ELSE t[i]]
        padded(t) == <<" ">> \o upper(t) \o <<" ", " ">>
        reversed == [i \in DOMAIN list |-> padded(list[Len(list) + 1 - i])]
    IN  reversed \o reversed

\* C17: calculate_percentage_match(required, candidate) is 100 for an empty
\* required list and otherwise |N(required) \cap N(candidate)| / |N(required)|
\* * 100; it lies in [0,100] and does not change with letter case,
\* surrounding blanks, duplicates or the order of either list.
C17_PercentageMatch ==
    MatchCalled =>
        LET required == fn_in.required
            candidate == fn_in.candidate
            r == fn_out.result
        IN  /\ required = <<>> => r = Num(100)
            /\ required # <<>> =>
                   r = Rat(100 * Cardinality(Normalized(required)
                                                \cap Normalized(candidate)),
                           Cardinality(Normalized(required)))
            /\ InRange(r)
            /\ calculate_percentage_match(Disguised(required), candidate) = r
            /\ calculate_percentage_match(required, Disguised(candidate)) = r

\* required [Python, Java] against [python] gives 50.
C17_Witness ==
    /\ MatchCalled
    /\ fn_in.required = <<Sk.Python, Sk.Java>>
    /\ fn_in.candidate = <<Sk.python>>
    /\ fn_out.result = Num(50)

RAbs(x) == IF RLt(x, Num(0)) THEN RSub(Num(0), x) ELSE x

\* The weighted sum of the four sub-scores as the breakdown reports them.
ReportedSum(b) ==
    RAdd(RAdd(RMul(b.skills_score, b.weights_used.skills_match),
              RMul(b.experience_score, b.weights_used.experience_match)),
         RAdd(RMul(b.location_score, b.weights_used.location_match),
              RMul(b.education_score, b.weights_used.education_match)))

\* What rounding five reported values to 2 decimals can add up to: 0.005 for
\* the overall score and 0.005 * |w| for each sub-score.
RoundingSlack(w) ==
    RMul(Rat(1, 200),
         RAdd(Num(1),
              RAdd(RAdd(RAbs(w.skills_match), RAbs(w.experience_match)),
                   RAdd(RAbs(w.location_match), RAbs(w.education_match)))))

\* C16: the breakdown's overall_score is the sum of the four sub-scores,
\* each times its weight in the breakdown's own weights_used, up to the
\* rounding of the reported values to 2 decimals: it is that sum of the
\* unrounded sub-scores, rounded, and it differs from the sum of the
\* reported sub-scores by no more than the rounding allows.
C16_OverallIsWeightedSum ==
    Scored =>
        LET b == fn_out.result.breakdown
            exact == OverallScore(_score_skills_match(fn_in.candidate, fn_in.job),
                                  _score_experience(fn_in.candidate, fn_in.job),
                                  _score_location(fn_in.candidate, fn_in.job),
                                  _score_education(fn_in.candidate, fn_in.job),
                                  b.weights_used)
        IN  /\ fn_out.result.score = exact
            /\ b.overall_score = Round2(exact)
            /\ RLe(RAbs(RSub(b.overall_score, ReportedSum(b))),
                   RoundingSlack(b.weights_used))

\* A breakdown in which the rounding shows: skills_score is 33.33 and the
\* reported overall_score is not the sum of the reported parts.
C16_Witness ==
    /\ Scored
    /\ fn_out.result.breakdown.skills_score = Rat(3333, 100)
    /\ fn_out.result.breakdown.overall_score
           # ReportedSum(fn_out.result.breakdown)
    /\ fn_out.result.breakdown.overall_score # fn_out.result.score

\* score_candidate was called (it returned or raised).
ScoreCalled == fn_out # None /\ fn_out.fn = "score_candidate"

\* The key is missing from the candidate.
Missing(candidate, key) == key \notin DOMAIN candidate

\* The key is there and its value is None.
IsNull(candidate, key) ==
    /\ key \in DOMAIN candidate
    /\ \/ key = "skills" /\ candidate[key] = NoneList
       \/ key = "experience_years" /\ candidate[key] = NoneYears
       \/ key \in {"location", "education"} /\ candidate[key] = NoneText

ScoredFields == {"skills", "experience_years", "location", "education"}

BreakdownKeys ==
    {"overall_score", "skills_score", "experience_score", "location_score",
     "education_score", "weights_used", "skills_matched", "skills_missing"}

\* The candidate with every absent field set to its documented default.
WithDefaults(candidate) ==
    [k \in DOMAIN candidate \cup ScoredFields |->
        IF Missing(candidate, k) \/ IsNull(candidate, k)
        THEN IF k = "experience_years" THEN 0 ELSE <<>>
        ELSE candidate[k]]

\* C15: score_candidate never raises for a candidate in which education,
\* location, experience_years or skills is absent (the key is missing or its
\* value is None): the field counts as its default (education 60, 0 years,
\* empty location, no skills) and a complete breakdown is returned.
C15_AbsentFieldsDegradeToDefaults ==
    ScoreCalled =>
        LET candidate == fn_in.candidate
            r == fn_out.result
        IN  /\ ~r.raised
            /\ DOMAIN r.breakdown = BreakdownKeys
            /\ r.breakdown.skills_score
                   = Round2(_score_skills_match(WithDefaults(candidate), fn_in.job))
            /\ r.breakdown.experience_score
                   = Round2(_score_experience(WithDefaults(candidate), fn_in.job))
            /\ r.breakdown.location_score
                   = Round2(_score_location(WithDefaults(candidate), fn_in.job))
            /\ r.breakdown.education_score
                   = Round2(_score_education(WithDefaults(candidate), fn_in.job))
            /\ (Missing(candidate, "education") \/ IsNull(candidate, "education"))
                   => r.breakdown.education_score = Num(60)

\* The same for fields that are missing, none of them None.
C15_MissingKeysDegradeToDefaults ==
    (\A k \in ScoredFields : ~IsNull(fn_in.candidate, k))
        => C15_AbsentFieldsDegradeToDefaults

(***************************************************************************)
(* Properties of rank_candidates (checked under Spec).                     *)
(***************************************************************************)
Ended == pc \in {"returned", "raised"}

\* The entries are sorted and numbered (the loop and the sort are done).
Ranked == pc \in {"enhance", "finish", "returned"}

Min(a, b) == IF a < b THEN a ELSE b

\* The fields of an entry that came from the candidate record.
CandidateOf(rec) ==
    [k \in DOMAIN rec \ {"match_score", "match_details", "ranking", "ai_assessment"}
        |-> rec[k]]

\* C4: rank_candidates with an empty candidate list returns an empty list
\* and raises no error (any job, any top_n, either use_ai_weights).
C4_EmptyListReturnsEmpty ==
    (Ended /\ candidates = <<>>) => (pc = "returned" /\ result.list = <<>>)

\* The weight sets _determine_weights can resolve for a job on this scorer.
WeightsForJob(j) ==
    {_determine_weights(use_ai_weights, llm, j, o).weights : o \in WeightOutcomes}

\* C5: over any sequence of calls on one ranker, the weights_used of every
\* breakdown a call produces are weights resolved for that call's job;
\* no weight set of an earlier call is carried over.
C5_WeightsOfThisCallsJob ==
    pc = "returned" =>
        \A k \in DOMAIN result.list :
            result.list[k].rec.match_details.weights_used \in WeightsForJob(job)

\* C6: within one rank_candidates call the weights are resolved at most once
\* (the advisory is asked for weights at most once, also when it fails and
\* the rule-based weights are used), and all breakdowns of the call carry
\* the same weights_used.
C6_WeightsResolvedOncePerCall ==
    /\ Len(resolved) <= 1
    /\ Cardinality({k \in DOMAIN advisory_log :
                       advisory_log[k].purpose = "weights"}) <= 1
    /\ \A a, b \in DOMAIN scored_candidates :
           scored_candidates[a].rec.match_details.weights_used
               = scored_candidates[b].rec.match_details.weights_used
    /\ pc = "returned" =>
           \A a, b \in DOMAIN result.list :
               result.list[a].rec.match_details.weights_used
                   = result.list[b].rec.match_details.weights_used

\* The advisory was asked, failed, and the whole batch of three was scored
\* with the rule-based weights of the job.
C6_Witness ==
    /\ pc = "returned"
    /\ use_ai_weights /\ llm.api_key
    /\ Len(result.list) = 3
    /\ Len(resolved) = 1
    /\ \E k \in DOMAIN advisory_log : advisory_log[k].purpose = "weights"
    /\ \A k \in DOMAIN result.list :
           result.list[k].rec.match_details.weights_used
               = _adaptive_rule_based_weights(job)

\* C7: the list returned without top_n for n candidates has ranking i at
\* position i, scores that never increase along the list, and exactly the
\* input candidates, none lost and none twice.
C7_FullRanking ==
    (pc = "returned" /\ top_n = Absent) =>
        /\ Len(result.list) = Len(candidates)
        /\ \A k \in DOMAIN result.list : result.list[k].rec.ranking = k
        /\ \A k \in 1..(Len(result.list) - 1) :
               RLe(result.list[k + 1].rec.match_score, result.list[k].rec.match_score)
        /\ {result.list[k].src : k \in DOMAIN result.list} = DOMAIN candidates
        /\ \A k \in DOMAIN result.list :
               CandidateOf(result.list[k].rec) = candidates[result.list[k].src]

\* Three candidates came back in another order than they went in.
C7_Witness ==
    /\ pc = "returned" /\ top_n = Absent
    /\ Len(result.list) = 3
    /\ result.list[1].src = 3
    /\ RLt(result.list[3].rec.match_score, result.list[1].rec.match_score)

\* C8: of two candidates of one batch with the same overall score, the one
\* earlier in the input list gets the smaller ranking.
C8_StableForTies ==
    Ranked =>
        \A a, b \in DOMAIN scored_candidates :
            (/\ scored_candidates[a].rec.match_score
                    = scored_candidates[b].rec.match_score
             /\ scored_candidates[a].src < scored_candidates[b].src)
                => scored_candidates[a].rec.ranking < scored_candidates[b].rec.ranking

\* Two tied candidates with a better one between them in the input.
C8_Witness ==
    /\ pc = "returned"
    /\ Len(scored_candidates) = 3
    /\ scored_candidates[1].src = 2
    /\ scored_candidates[2].src = 1
    /\ scored_candidates[3].src = 3
    /\ scored_candidates[2].rec.match_score = scored_candidates[3].rec.match_score

\* C9: for every top_n >= 1 and every list of n candidates, rank_candidates
\* returns exactly min(top_n, n) entries, the first min(top_n, n) entries of
\* the full sorted ranking in the same order, with rankings 1..min(top_n, n);
\* with and without enrichment.
C9_TopNTruncation ==
    (Ended /\ top_n # Absent /\ top_n[1] >= 1) =>
        /\ pc = "returned"
        /\ Len(result.list) = Min(top_n[1], Len(candidates))
        /\ \A k \in DOMAIN result.list :
               /\ result.list[k].rec.ranking = k
               /\ result.list[k] = scored_candidates[k]
        /\ \A k \in DOMAIN scored_candidates : scored_candidates[k].rec.ranking = k
        /\ \A k \in 1..(Len(scored_candidates) - 1) :
               RLe(scored_candidates[k + 1].rec.match_score,
                   scored_candidates[k].rec.match_score)
\* An entry without its commentary.
WithoutAssessment(entry) ==
    [entry EXCEPT !.rec = [k \in DOMAIN entry.rec \ {"ai_assessment"} |-> entry.rec[k]]]

\* The sorted and numbered entries of this call as they are before any
\* enrichment: every candidate scored with the scorer's weights.
BeforeEnrichment ==
    AssignRankings(SortByScore(
        [i \in DOMAIN candidates |->
            ScoredEntry(i, candidates[i],
                        score_candidate(weights, use_ai_weights, llm,
                                        candidates[i], job,
                                        Failed("connection_error")))]))

\* The enrichment call for this entry failed: what came back is an error text.
EnrichmentFailed(entry) ==
    /\ "ai_assessment" \in DOMAIN entry.rec
    /\ entry.rec.ai_assessment.kind = "error"

\* C13: a failed enrichment call for one candidate does not abort
\* rank_candidates, does not keep the remaining top-N candidates from being
\* enriched, and leaves match_score, match_details and ranking of every
\* candidate and the order of the list as they were before enrichment.
C13_EnrichmentFailureIsContained ==
    (Ranked /\ use_ai_weights /\ Truthy(top_n)) =>
        /\ [k \in DOMAIN scored_candidates |->
               WithoutAssessment(scored_candidates[k])] = BeforeEnrichment
        /\ pc \in {"finish", "returned"} =>
               \A k \in 1..Min(top_n[1], Len(scored_candidates)) :
                   "ai_assessment" \in DOMAIN scored_candidates[k].rec
        /\ pc = "returned" =>
               /\ result.list = Take(scored_candidates, top_n[1])
               /\ \A k \in DOMAIN result.list :
                      {"match_score", "match_details", "ranking"}
                          \subseteq DOMAIN result.list[k].rec

\* The call for the best of three candidates failed, the call for the
\* second succeeded, and the list came back.
C13_Witness ==
    /\ pc = "returned" /\ use_ai_weights /\ llm.api_key
    /\ Len(candidates) = 3 /\ Len(result.list) = 2
    /\ EnrichmentFailed(result.list[1])
    /\ result.list[2].rec.ai_assessment = Prose
    /\ result.list[1].src # 1

\* C14: when the enrichment call for a candidate fails, the returned entry
\* has no ai_assessment (the key is missing or null): no failure text is
\* stored as commentary.
C14_FailedEnrichmentLeavesNoCommentary ==
    pc = "returned" =>
        \A k \in DOMAIN result.list : ~EnrichmentFailed(result.list[k])
\* rank_candidates is running.
InCall == pc \in {"score", "enhance", "finish"}

AddedKeys == {"match_score", "match_details", "ranking", "ai_assessment"}

\* C18: rank_candidates does not modify its inputs: while the call runs, no
\* step changes the input list or the job, and up to its end no input
\* candidate has match_score, match_details, ranking or ai_assessment.
C18_InputsUnmodified ==
    /\ [][InCall => UNCHANGED <<candidates, job>>]_vars
    /\ [](\A i \in DOMAIN candidates : DOMAIN candidates[i] \cap AddedKeys = {})

\* A call with enrichment returned three entries in another order than the
\* input, with commentary, and the input is the list of plain candidates.
C18_Witness ==
    /\ pc = "returned" /\ use_ai_weights /\ Truthy(top_n)
    /\ Len(result.list) = 3
    /\ result.list[1].src = 3
    /\ \A k \in DOMAIN result.list : "ai_assessment" \in DOMAIN result.list[k].rec
    /\ \A i \in DOMAIN candidates : candidates[i] \in RankCandidatePool

CompleteEntry(rec) ==
    /\ {"match_score", "match_details", "ranking"} \subseteq DOMAIN rec
    /\ DOMAIN rec.match_details = BreakdownKeys

\* C19: for every non-empty candidate list and whatever the advisory does in
\* the weight request and in each assessment request (answer, error,
\* malformed answer, timeout), rank_candidates eventually returns, and every
\* returned entry has match_score, a complete match_details and a ranking.
C19_RankingCompletes ==
    /\ (pc = "score" /\ candidates # <<>>) ~> (pc = "returned")
    /\ [](pc = "returned" =>
              \A k \in DOMAIN result.list : CompleteEntry(result.list[k].rec))

\* A call of three candidates returned although the weight request and
\* every assessment request failed.
C19_Witness ==
    /\ pc = "returned" /\ use_ai_weights /\ llm.api_key
    /\ Len(result.list) = 3
    /\ weights = _adaptive_rule_based_weights(job)
    /\ \A k \in DOMAIN result.list :
           /\ EnrichmentFailed(result.list[k])
           /\ CompleteEntry(result.list[k].rec)

\* The call of the example: a ranker with rule-based weights, the senior
\* remote job, and candidates A and B in one or the other order.
ExampleCall ==
    /\ ~use_ai_weights
    /\ job = Job_SeniorRemote
    /\ candidates \in {<<Cand_A, Cand_B>>, <<Cand_B, Cand_A>>}

\* The ranked entry of input candidate c.
EntryOf(c) ==
    scored_candidates[CHOOSE k \in DOMAIN scored_candidates :
                          candidates[scored_candidates[k].src] = c].rec

\* C20: with rule-based weights, for the job {senior, [Python, AWS], Remote},
\* candidate A {[Python, AWS, Docker], 10 years, NYC, Master's} and candidate
\* B {[Python], 1 year, Remote, no education}, in either input order A gets
\* ranking 1 and B ranking 2, A's skills_score is 100 and B's 50, A's
\* experience_score is 100 and B's is below 50.
C20_ExampleRanking ==
    (Ranked /\ ExampleCall) =>
        /\ Len(scored_candidates) = 2
        /\ EntryOf(Cand_A).ranking = 1
        /\ EntryOf(Cand_B).ranking = 2
        /\ EntryOf(Cand_A).match_details.skills_score = Num(100)
        /\ EntryOf(Cand_B).match_details.skills_score = Num(50)
        /\ EntryOf(Cand_A).match_details.experience_score = Num(100)
        /\ RLt(EntryOf(Cand_B).match_details.experience_score, Num(50))

\* The example call returned with B given first: the sort moved A ahead.
C20_Witness ==
    /\ pc = "returned" /\ ExampleCall
    /\ candidates = <<Cand_B, Cand_A>>
    /\ Len(result.list) = 2
    /\ result.list[1].src = 2
    /\ result.list[1].rec.ranking = 1
    /\ weights = _adaptive_rule_based_weights(job)

(***************************************************************************)
(* Order of scoring within one call (checked under Spec).                  *)
(***************************************************************************)
\* What score_candidate gives for candidate c and the call's job with the
\* weights the scorer holds; the position of c in the list is no argument.
ScoreOf(c) ==
    score_candidate(weights, use_ai_weights, llm, c, job, Failed("exception"))

\* C21: within one rank_candidates call the match_score and the breakdown of
\* a candidate depend on the candidate, the job and the call's weights only,
\* not on the position at which it was scored (so every permutation of the
\* list gives every candidate the same score and breakdown), and an entry
\* with a higher score always has the smaller ranking (so two permutations
\* differ at most in the order of candidates with equal score).
C21_ScoreIndependentOfOrder ==
    Ranked =>
        /\ \A k \in DOMAIN scored_candidates :
               /\ scored_candidates[k].rec.match_score
                      = ScoreOf(candidates[scored_candidates[k].src]).score
               /\ scored_candidates[k].rec.match_details
                      = ScoreOf(candidates[scored_candidates[k].src]).breakdown
        /\ \A a, b \in DOMAIN scored_candidates :
               RLt(scored_candidates[b].rec.match_score,
                   scored_candidates[a].rec.match_score)
                   => scored_candidates[a].rec.ranking
                          < scored_candidates[b].rec.ranking

\* B, A, B were scored in this order with weights the advisory gave; A came
\* out first and the two B's carry the same score.
C21_Witness ==
    /\ pc = "returned" /\ top_n = Absent
    /\ candidates = <<Cand_B, Cand_A, Cand_B>>
    /\ use_ai_weights /\ weights # _adaptive_rule_based_weights(job)
    /\ result.list[1].src = 2
    /\ result.list[2].rec.match_score = result.list[3].rec.match_score

(***************************************************************************)
(* The table of rule-based weights (checked under SpecWeights).            *)
(***************************************************************************)
\* What the table reads of a job: its level, whether it is remote, whether
\* its title is a technical one.
TableLevel(j) == Lower(Get(j, "experience_level", S_mid))
TableRemote(j) == Contains(Lower(Get(j, "location", <<>>)), S_remote)
TableTechnical(j) ==
    \E kw \in TechnicalKeywords : Contains(Lower(Get(j, "title", <<>>)), kw)

\* Rows of the table: (skills, experience, location, education) in percent.
TableRow(s, e, l, d) ==
    [skills_match |-> Pct(s), experience_match |-> Pct(e),
     location_match |-> Pct(l), education_match |-> Pct(d)]

TableAfterLevel(j) ==
    IF TableLevel(j) = S_senior THEN TableRow(40, 35, 15, 10)
    ELSE IF TableLevel(j) = S_entry THEN TableRow(45, 15, 15, 25)
    ELSE TableRow(40, 30, 15, 15)

\* Remote: location becomes 0.05 and what it gave up goes to skills.
TableAfterRemote(j) ==
    LET w == TableAfterLevel(j)
        freed == RSub(w.location_match, Pct(5))
    IN  IF TableRemote(j)
        THEN [skills_match |-> RAdd(w.skills_match, freed),
              experience_match |-> w.experience_match,
              location_match |-> Pct(5),
              education_match |-> w.education_match]
        ELSE w

TableWeights(j) ==
    LET w == TableAfterRemote(j)
    IN  IF TableTechnical(j)
        THEN [skills_match |-> RMin(Pct(50), RAdd(w.skills_match, Pct(5))),
              experience_match |-> w.experience_match,
              location_match |-> w.location_match,
              education_match |-> RMax(Pct(10), RSub(w.education_match, Pct(5)))]
        ELSE w

\* C22: the rule-based weights are the table applied step by step (level,
\* then remote, then technical title), they are the same for the same job
\* whatever the scorer's configuration, and for a job with a technical title
\* skills_match <= 0.50 and education_match >= 0.10.
C22_RuleWeightsFollowTable ==
    /\ RuleWeightsComputed =>
           /\ fn_out.weights = TableWeights(fn_in.job)
           /\ TableTechnical(fn_in.job) =>
                  /\ RLe(fn_out.weights.skills_match, Pct(50))
                  /\ RLe(Pct(10), fn_out.weights.education_match)
    /\ (WeightsDetermined /\ ~use_ai_weights) =>
           fn_out.result.weights = TableWeights(fn_in.job)

\* A senior, remote, technical job: all three steps applied, and both the
\* cap of skills and the floor of education took effect.
C22_Witness ==
    /\ RuleWeightsComputed
    /\ TableLevel(fn_in.job) = S_senior
    /\ TableRemote(fn_in.job) /\ TableTechnical(fn_in.job)
    /\ fn_out.weights = TableRow(50, 35, 5, 10)

(***************************************************************************)
(* The four factor scores on their own: one job, one candidate, and one of *)
(* _score_skills_match, _score_experience, _score_location,                *)
(* _score_education (or the rule-based weights of the job) applied to them. *)
(***************************************************************************)

ExperienceInputs ==
    [job : {MakeJob(t, l, loc, Absent) :
                t \in Optional({Title.DataScientist}),
                l \in Optional(LevelPool \cup {Level.SENIOR, Level.Entry}),
                loc \in Optional({Loc.Remote})},
     candidate : {MakeCandidate(Absent, Absent, Some(y), Absent, Absent) :
                      y \in 0..MaxYears}]


LocationInputs ==
    [job : {MakeJob(Absent, Absent, loc, Absent) :
                loc \in Optional({Loc.Remote, Loc.AustinTX, Loc.SanFrancisco,
                                  Loc.AustinRemotePossible, Loc.SohoNyc,
                                  Loc.sf_spaced})},
     candidate : {MakeCandidate(Absent, Absent, Absent, loc, Absent) :
                      loc \in Optional({Loc.Remote, Loc.SanFrancisco, Loc.Boston,
                                        Loc.NycSoho, Loc.HoustonTX, Loc.RemoteUS,
                                        Loc.AustinTX})}]


EducationInputs ==
    [job : {MakeJob(Absent, Absent, Absent, Absent)},
     candidate : {MakeCandidate(Absent, Absent, Absent, Absent, ed) :
                      ed \in Optional({<<>>, NoneText, Ed.Blank, Ed.Masters, Ed.PhD,
                                       Ed.Bachelor, Ed.PhDotD, Ed.Doctorate,
                                       Ed.BachelorAndMaster, Ed.MasterAndPhD,
                                       Ed.MBA})}]

SkillsUnrelated == <<Sk.Java, Sk.Go, Sk.Rust>>
SkillsSeven == <<Sk.Java, Sk.Go, Sk.Rust, Sk.Docker, Sk.AWS, Sk.Java, Sk.Go>>

SkillsInputs ==
    [job : {MakeJob(Absent, Absent, Absent, sk) :
                sk \in Optional({<<>>, SkillsPython, SkillsPythonAws, SkillsThree})},
     candidate : {MakeCandidate(Absent, sk, Absent, Absent, Absent) :
                      sk \in Optional({<<>>, SkillsPython, SkillsPythonAws,
                                       SkillsThree, SkillsOther, SkillsUnrelated,
                                       SkillsSeven})}]

FactorInputs ==
    ExperienceInputs \cup LocationInputs \cup EducationInputs \cup SkillsInputs

InitFactors ==
    /\ use_ai_weights = FALSE
    /\ llm = None
    /\ weights = None
    /\ fn_in \in FactorInputs
    /\ fn_out = None
    /\ NoCall

ScoreSkillsMatch ==
    /\ fn_out = None
    /\ fn_out' = [fn |-> "_score_skills_match",
                  result |-> _score_skills_match(fn_in.candidate, fn_in.job)]
    /\ UNCHANGED <<scorer, fn_in, call>>

ScoreExperience ==
    /\ fn_out = None
    /\ fn_out' = [fn |-> "_score_experience",
                  result |-> _score_experience(fn_in.candidate, fn_in.job)]
    /\ UNCHANGED <<scorer, fn_in, call>>

ScoreLocation ==
    /\ fn_out = None
    /\ fn_out' = [fn |-> "_score_location",
                  result |-> _score_location(fn_in.candidate, fn_in.job)]
    /\ UNCHANGED <<scorer, fn_in, call>>

ScoreEducation ==
    /\ fn_out = None
    /\ fn_out' = [fn |-> "_score_education",
                  result |-> _score_education(fn_in.candidate, fn_in.job)]
    /\ UNCHANGED <<scorer, fn_in, call>>

NextFactors ==
    \/ ScoreSkillsMatch
    \/ ScoreExperience
    \/ ScoreLocation
    \/ ScoreEducation
    \/ RuleBasedWeights

SpecFactors == InitFactors /\ [][NextFactors]_vars

(***************************************************************************)
(* Properties of the factor scores (checked under SpecFactors).            *)
(***************************************************************************)
ExperienceScored == fn_out # None /\ fn_out.fn = "_score_experience"

\* The level of the job as the claims name it, and the candidate's years.
JobLevel == Lower(Get(fn_in.job, "experience_level", S_mid))
Years == Get(fn_in.candidate, "experience_years", 0)

\* The ideal range of a level: entry [0,2], mid [3,7], senior [8,15].
IdealMin == IF JobLevel = S_entry THEN 0 ELSE IF JobLevel = S_senior THEN 8 ELSE 3
IdealMax == IF JobLevel = S_entry THEN 2 ELSE IF JobLevel = S_senior THEN 15 ELSE 7

Max(a, b) == IF a > b THEN a ELSE b

\* C23: for a job of level entry, mid or senior the experience score is 100
\* within the inclusive range of the level, max(0, 100 - 20 * (min - years))
\* below it and max(50, 100 - 10 * (years - max)) above it; so it is 100
\* exactly within the range and at least 50 above it, and for a senior job
\* 8 years give 100, 5 years 40 and 20 years 50.
C23_ExperienceScore ==
    (ExperienceScored /\ JobLevel \in {S_entry, S_mid, S_senior}) =>
        /\ fn_out.result =
               IF IdealMin <= Years /\ Years <= IdealMax THEN Num(100)
               ELSE IF Years < IdealMin
                    THEN Num(Max(0, 100 - 20 * (IdealMin - Years)))
                    ELSE Num(Max(50, 100 - 10 * (Years - IdealMax)))
        /\ fn_out.result = Num(100) <=> (IdealMin <= Years /\ Years <= IdealMax)
        /\ Years > IdealMax => RLe(Num(50), fn_out.result)
        /\ (JobLevel = S_senior /\ Years = 8) => fn_out.result = Num(100)
        /\ (JobLevel = S_senior /\ Years = 5) => fn_out.result = Num(40)
        /\ (JobLevel = S_senior /\ Years = 20) => fn_out.result = Num(50)

\* Twenty years for a senior job: five years over, held at 50.
C23_Witness ==
    /\ ExperienceScored
    /\ Get(fn_in.job, "experience_level", <<>>) = Level.senior
    /\ Years = 20
    /\ fn_out.result = Num(50)

\* The job with its experience_level set to l.
WithLevel(j, l) == ("experience_level" :> l) @@ j

\* The job names no level, or one that is not entry, mid or senior in any
\* spelling of upper and lower case.
LevelUnrecognised ==
    \/ "experience_level" \notin DOMAIN fn_in.job
    \/ JobLevel \notin {S_entry, S_mid, S_senior}

\* C24: a job without experience_level, or with a level other than entry,
\* mid and senior, gets the experience score of the range [3,7] and the
\* rule-based weights of the same job at level mid; and a level written
\* with capitals gets the score and the weights of its lower-case form.
C24_UnknownLevelIsMid ==
    /\ (ExperienceScored /\ LevelUnrecognised) =>
           /\ fn_out.result =
                  IF 3 <= Years /\ Years <= 7 THEN Num(100)
                  ELSE IF Years < 3 THEN Num(Max(0, 100 - 20 * (3 - Years)))
                  ELSE Num(Max(50, 100 - 10 * (Years - 7)))
           /\ fn_out.result = _score_experience(fn_in.candidate,
                                                WithLevel(fn_in.job, S_mid))
    /\ (RuleWeightsComputed /\ LevelUnrecognised) =>
           /\ fn_out.weights = TableWeights(WithLevel(fn_in.job, S_mid))
           /\ fn_out.weights.experience_match = Pct(30)
    /\ ExperienceScored =>
           fn_out.result = _score_experience(fn_in.candidate,
                                             WithLevel(fn_in.job, JobLevel))
    /\ RuleWeightsComputed =>
           fn_out.weights = _adaptive_rule_based_weights(WithLevel(fn_in.job, JobLevel))

\* A job of level "lead" and a candidate of five years: scored as mid.
C24_Witness ==
    /\ ExperienceScored
    /\ Get(fn_in.job, "experience_level", <<>>) = Level.lead
    /\ Years = 5
    /\ fn_out.result = Num(100)

LocationScored == fn_out # None /\ fn_out.fn = "_score_location"

\* The two locations, lowercased and trimmed, and their comma-separated tokens.
JobLocation == Strip(Lower(Get(fn_in.job, "location", <<>>)))
CandidateLocation == Strip(Lower(Get(fn_in.candidate, "location", <<>>)))
JobTokens == Split(JobLocation)
CandidateTokens == Split(CandidateLocation)

\* The number of job tokens that, trimmed, occur within a candidate token.
PartialMatches ==
    Cardinality({i \in DOMAIN JobTokens :
                    \E j \in DOMAIN CandidateTokens :
                        Contains(CandidateTokens[j], Strip(JobTokens[i]))})

\* C25: the location score is decided in this order: a job location that
\* contains "remote" gives 100; equal locations give 100; m >= 1 partial
\* token matches give 70 + 10 * m; a candidate location that contains
\* "remote" gives 80; everything else 40.  So "Austin, TX" against "Remote"
\* gives 80 and locations with nothing in common give 40.
C25_LocationScore ==
    LocationScored =>
        /\ fn_out.result =
               IF Contains(JobLocation, S_remote) THEN Num(100)
               ELSE IF JobLocation = CandidateLocation THEN Num(100)
               ELSE IF PartialMatches >= 1 THEN Num(70 + 10 * PartialMatches)
               ELSE IF Contains(CandidateLocation, S_remote) THEN Num(80)
               ELSE Num(40)
        /\ (/\ Get(fn_in.job, "location", <<>>) = Loc.AustinTX
            /\ Get(fn_in.candidate, "location", <<>>) = Loc.Remote)
               => fn_out.result = Num(80)
        /\ (/\ Get(fn_in.job, "location", <<>>) = Loc.SanFrancisco
            /\ Get(fn_in.candidate, "location", <<>>) = Loc.Boston)
               => fn_out.result = Num(40)
        /\ Get(fn_in.job, "location", <<>>) = Loc.Remote
               => fn_out.result = Num(100)

\* "Austin, TX" against "Remote": no token in common, the candidate is
\* remote, 80.
C25_Witness ==
    /\ LocationScored
    /\ Get(fn_in.job, "location", <<>>) = Loc.AustinTX
    /\ Get(fn_in.candidate, "location", <<>>) = Loc.Remote
    /\ PartialMatches = 0
    /\ fn_out.result = Num(80)

EducationScored == fn_out # None /\ fn_out.fn = "_score_education"

\* The education as given, and lowercased and trimmed.
RawEducation == Get(fn_in.candidate, "education", <<>>)
Education == Strip(Lower(RawEducation))

NamesDoctorate ==
    \/ Contains(Education, S_phd)
    \/ Contains(Education, S_ph_d)
    \/ Contains(Education, S_doctorate)
NamesMaster == Contains(Education, S_master)
NamesBachelor == Contains(Education, S_bachelor)

\* C26: the education score is 60 for a missing or empty education; for any
\* other text it is 100 when the text names a doctorate (phd, ph.d,
\* doctorate), else 90 when it names a master, else 80 when it names a
\* bachelor, else 60; a text that names several degrees gets the score of
\* the highest, and the score is always 60, 80, 90 or 100.
C26_EducationScore ==
    EducationScored =>
        /\ fn_out.result =
               IF \/ "education" \notin DOMAIN fn_in.candidate
                  \/ RawEducation = <<>>
                  \/ RawEducation = NoneText
               THEN Num(60)
               ELSE IF NamesDoctorate THEN Num(100)
               ELSE IF NamesMaster THEN Num(90)
               ELSE IF NamesBachelor THEN Num(80)
               ELSE Num(60)
        /\ (RawEducation # NoneText /\ NamesMaster /\ NamesBachelor /\ ~NamesDoctorate)
               => fn_out.result = Num(90)
        /\ (RawEducation # NoneText /\ NamesMaster /\ NamesDoctorate)
               => fn_out.result = Num(100)
        /\ fn_out.result \in {Num(60), Num(80), Num(90), Num(100)}

\* "Bachelor, MASTER" names two degrees and gets the score of the master.
C26_Witness ==
    /\ EducationScored
    /\ RawEducation = Ed.BachelorAndMaster
    /\ NamesMaster /\ NamesBachelor
    /\ fn_out.result = Num(90)

SkillsScored == fn_out # None /\ fn_out.fn = "_score_skills_match"

\* The two lists of skills and the number of skills the candidate lists
\* beyond the number required.
RequiredSkills == Get(fn_in.job, "required_skills", <<>>)
CandidateSkills == Get(fn_in.candidate, "skills", <<>>)
ExtraSkills == Len(CandidateSkills) - Len(RequiredSkills)

\* C27: the skills score is 100 when the job requires no skills; otherwise
\* it is the percentage match of the required against the candidate's
\* skills, to which, when the candidate lists more skills than required,
\* min(10, 2 * extra) is added with the total held at 100; without extra
\* skills it is the percentage match itself.
C27_SkillsScore ==
    SkillsScored =>
        /\ fn_out.result =
               IF Len(RequiredSkills) = 0 THEN Num(100)
               ELSE IF ExtraSkills > 0
                    THEN RMin(Num(100),
                              RAdd(calculate_percentage_match(RequiredSkills,
                                                              CandidateSkills),
                                   Num(Min(10, 2 * ExtraSkills))))
                    ELSE calculate_percentage_match(RequiredSkills, CandidateSkills)
        /\ RLe(fn_out.result, Num(100))
        /\ (Len(RequiredSkills) > 0 /\ ExtraSkills > 0) =>
               RLe(RSub(fn_out.result,
                        calculate_percentage_match(RequiredSkills, CandidateSkills)),
                   Num(10))

\* Seven skills against one required skill that is not among them: the
\* match is 0 and the bonus is held at 10.
C27_Witness ==
    /\ SkillsScored
    /\ RequiredSkills = SkillsPython
    /\ CandidateSkills = SkillsSeven
    /\ ExtraSkills = 6
    /\ fn_out.result = Num(10)

\* All required skills and one more: 100 + 2 is held at 100.
C27_WitnessCapped ==
    /\ SkillsScored
    /\ RequiredSkills = SkillsPythonAws
    /\ CandidateSkills = SkillsThree
    /\ calculate_percentage_match(RequiredSkills, CandidateSkills) = Num(100)
    /\ fn_out.result = Num(100)

(***************************************************************************)
(* top_n = 0 and the advisory calls of a ranking (checked under Spec).     *)
(***************************************************************************)
\* The call was made with top_n = 0.
TopNZero == top_n = Some(0)

\* The full ranking came back and no assessment was asked for.
FullListNoEnrichment ==
    /\ pc = "returned"
    /\ result.list = scored_candidates
    /\ Len(result.list) = Len(candidates)
    /\ \A k \in DOMAIN result.list :
           /\ result.list[k].rec.ranking = k
           /\ "ai_assessment" \notin DOMAIN result.list[k].rec
    /\ \A i \in DOMAIN advisory_log : advisory_log[i].purpose # "assessment"

\* C28: rank_candidates with top_n = 0 behaves as with top_n = None: it
\* returns the full ranked list of all n candidates, not an empty list, and
\* asks for no assessment.
C28_TopNZeroIsFullList ==
    (Ended /\ TopNZero) => FullListNoEnrichment

\* The same for a list of at least one candidate.
C28_TopNZeroNonEmpty ==
    (Ended /\ TopNZero /\ candidates # <<>>) => FullListNoEnrichment

(***************************************************************************)
(* The range of the weights (checked under SpecWeights).                   *)
(***************************************************************************)
\* C29: every weight of a set returned by _determine_weights lies in [0,1],
\* for the weights taken from the advisory (any numeric raw weights whose
\* sum is above 0, negative ones and ones above 1 included) as for the
\* rule-based weights.
C29_WeightsInUnitRange ==
    (WeightsDetermined /\ ~fn_out.result.raised) =>
        \A k \in WeightKeys :
            /\ RLe(Num(0), fn_out.result.weights[k])
            /\ RLe(fn_out.result.weights[k], Num(1))

\* The same for the rule-based weights alone.
C29_RuleWeightsInUnitRange ==
    RuleWeightsComputed =>
        \A k \in WeightKeys :
            /\ RLe(Num(0), fn_out.weights[k])
            /\ RLe(fn_out.weights[k], Num(1))

\* The requests of the running call that asked for an assessment.
AssessmentRequests ==
    {i \in DOMAIN advisory_log : advisory_log[i].purpose = "assessment"}

\* The ranked entry made from the input candidate at position src.
EntryFrom(src) ==
    scored_candidates[CHOOSE k \in DOMAIN scored_candidates :
                          scored_candidates[k].src = src]

\* Every candidate has been scored and every entry has its ranking.
AllRanked ==
    /\ Len(scored_candidates) = Len(candidates)
    /\ \A k \in DOMAIN scored_candidates :
           /\ "ranking" \in DOMAIN scored_candidates[k].rec
           /\ scored_candidates[k].rec.ranking = k

\* C30: with use_ai_weights = False no advisory request is ever made and no
\* returned entry has ai_assessment.  With use_ai_weights = True an
\* assessment is requested only in a call that was given top_n, only after
\* all candidates are scored and ranked (so after the weight request), and
\* only for a candidate ranked 1..top_n; only those entries get
\* ai_assessment.
C30_AdvisoryCallsInOrder ==
    /\ ~use_ai_weights =>
           /\ advisory_log = <<>>
           /\ \A k \in DOMAIN scored_candidates :
                  "ai_assessment" \notin DOMAIN scored_candidates[k].rec
    /\ AssessmentRequests # {} =>
           /\ use_ai_weights
           /\ top_n # Absent
           /\ Ranked /\ AllRanked
           /\ \A i \in AssessmentRequests :
                  /\ EntryFrom(advisory_log[i].at).rec.ranking <= top_n[1]
                  /\ \A h \in DOMAIN advisory_log :
                         advisory_log[h].purpose = "weights" => h < i
    /\ \A k \in DOMAIN scored_candidates :
           "ai_assessment" \in DOMAIN scored_candidates[k].rec
               => /\ top_n # Absent
                  /\ AllRanked
                  /\ k <= top_n[1]

\* Two candidates and top_n = 1: the weights were asked for first, then one
\* assessment, for the candidate ranked 1; the candidate ranked 2 was never
\* sent.
C30_Witness ==
    /\ pc = "returned" /\ use_ai_weights
    /\ Len(candidates) = 2 /\ top_n = Some(1)
    /\ Len(advisory_log) = 2
    /\ advisory_log[1].purpose = "weights"
    /\ advisory_log[2].purpose = "assessment"
    /\ advisory_log[2].at = scored_candidates[1].src
    /\ "ai_assessment" \notin DOMAIN scored_candidates[2].rec
=============================================================================
